---- MODULE Spec2Model ----
(***************************************************************************)
(* Civic-Samadhan backend: the report controller, the notification         *)
(* controller and the server start-up with its scheduled dispatch job,     *)
(* modelled as a state machine over the document store.                    *)
(*                                                                         *)
(* Encoding of JavaScript values:                                          *)
(*   - a request field that is absent (undefined or "") is the string "";  *)
(*   - null is the string "null" for string fields and 0 for ids;          *)
(*   - a document id (reportId, notificationId) is a positive integer, the *)
(*     position of the document in its collection;                         *)
(*   - a reference field left unresolved by a join is [ref |-> id], a      *)
(*     resolved one is the projected document (a record with other keys).  *)
(* Each handler runs as one atomic step.                                   *)
(***************************************************************************)
EXTENDS Integers, Sequences, FiniteSets, TLC

VARIABLES
    proc,           \* "starting" | "running" | "exited" | "crashed"
    cronScheduled,  \* the cron.schedule registration made in the listen callback
    users,          \* User collection: set of userIds that resolve
    categories,     \* Category collection: set of categoryIds
    reports,        \* Report collection, in insertion order
    history,        \* ReportHistory collection, in insertion order
    notifications,  \* Notification collection, in insertion order
    req,            \* the last request (or timer tick) handled
    res             \* the response sent for it (or the job's log line)

vars == <<proc, cronScheduled, users, categories, reports, history,
          notifications, req, res>>

store == <<users, categories, reports, history, notifications>>

----------------------------------------------------------------------------
(* Bounds of the model *)

MaxReports == 1
MaxNotifications == 2

----------------------------------------------------------------------------
(* Values the requests are drawn from *)

\* callers the authentication middleware lets through (req.user.userId)
UserIds == {"u1", "u2"}
StoredCategoryIds == {"cat-1"}
BodyFields == {"title", "description", "categoryId", "locationLat", "locationLng"}
CompleteBody ==
    [title |-> "Pothole", description |-> "Large pothole", categoryId |-> "cat-1",
     locationLat |-> "12.9", locationLng |-> "77.6"]
\* request bodies of submitReport: the complete one, the ones with one field
\* absent, and one whose categoryId names no category
SubmitBodies ==
    {CompleteBody, [CompleteBody EXCEPT !.categoryId = "cat-9"]}
    \cup {[CompleteBody EXCEPT ![f] = ""] : f \in BodyFields}
SubmitFiles ==
    {[photo |-> "absent", voiceRecording |-> "absent"],
     [photo |-> "attached", voiceRecording |-> "absent"],
     [photo |-> "attached", voiceRecording |-> "attached"]}
RequestStatuses == {"", "resolved"}
RequestRemarks == {"", "Crew assigned"}

\* !x of the handlers: undefined and the empty string are falsy
Falsy(x) == x = ""

----------------------------------------------------------------------------
(* Collaborators whose code is outside the shown sources *)

\* uploadOnCloudinary: the uploaded file's descriptor, or null
UploadOutcomes == {"url", "null"}

\* generateAnalytics, Notification.create, sendPendingReportNotifications:
\* the awaited promise resolves or rejects
AwaitOutcomes == {"resolves", "rejects"}

\* schema defaults of the Report and Notification models
DefaultReportStatus == "pending"
DefaultNotificationStatus == "unread"

\* status of the error envelope for an exception that is not an ApiError
UncaughtStatus == 500

----------------------------------------------------------------------------
(* Response envelopes *)

ApiError(op, code) ==
    [op |-> op, status |-> code, kind |-> "error", data |-> <<>>]

ApiResponseDoc(op, code, doc) ==
    [op |-> op, status |-> code, kind |-> "doc", data |-> <<doc>>]

ApiResponseList(op, code, list) ==
    [op |-> op, status |-> code, kind |-> "list", data |-> list]

\* asyncHandler: a rejected await inside a handler ends the request with an error
Uncaught(op) == ApiError(op, UncaughtStatus)

----------------------------------------------------------------------------
(* report.controller.js: submitReport *)

RequiredFieldsMissing(body) ==
    \/ Falsy(body.title)
    \/ Falsy(body.description)
    \/ Falsy(body.categoryId)
    \/ Falsy(body.locationLat)
    \/ Falsy(body.locationLng)

\* variant: the category lookup result is not tested
CategoryExists_Unchecked(categoryId) == TRUE

\* Category.findOne({ categoryId })
CategoryExists(categoryId) == categoryId \in categories

PhotoMissing(files) == files.photo = "absent"

\* Report.create({...}): reportId, status and createdAt come from the schema
NewReport(userId, body, voiceUrl) ==
    [reportId |-> Len(reports) + 1,
     userId |-> userId,
     categoryId |-> body.categoryId,
     title |-> body.title,
     description |-> body.description,
     photo_url |-> "url",
     voice_recording_url |-> voiceUrl,
     location_lat |-> body.locationLat,
     location_lng |-> body.locationLng,
     status |-> DefaultReportStatus,
     createdAt |-> Len(reports) + 1]

\* ReportHistory.create({...}) of submitReport
InitialHistory(newReport, userId) ==
    [reportId |-> newReport.reportId,
     previousStatus |-> "null",
     newStatus |-> "pending",
     changedByUserId |-> userId,
     remarks |-> "Report submitted by user."]

\* what the request lacks, in the words of the interface: used by the
\* properties only, never by the handler
SubmitDefects(body, files, uploads) ==
    {d \in {"field"} : \E f \in BodyFields : body[f] = ""}
    \cup {d \in {"category"} : body.categoryId # "" /\ body.categoryId \notin categories}
    \cup {d \in {"photo"} : files.photo = "absent"}
    \cup {d \in {"upload"} : "null" \in uploads}

SubmitReq(userId, body, files, uploads) ==
    [op |-> "submitReport", userId |-> userId,
     defects |-> SubmitDefects(body, files, uploads)]

\* a request that ends with a thrown ApiError before anything is written
SubmitRejected(userId, body, files, uploads, code) ==
    /\ req' = SubmitReq(userId, body, files, uploads)
    /\ res' = ApiError("submitReport", code)
    /\ UNCHANGED <<reports, history>>

\* Report.create, ReportHistory.create, generateAnalytics, res.status(201)
SubmitCreated(userId, body, files, uploads, voiceUrl) ==
    LET newReport == NewReport(userId, body, voiceUrl) IN
    /\ Len(reports) < MaxReports
    /\ req' = SubmitReq(userId, body, files, uploads)
    /\ reports' = Append(reports, newReport)
    /\ history' = Append(history, InitialHistory(newReport, userId))
    /\ \E analytics \in AwaitOutcomes :
         res' = IF analytics = "rejects"
                THEN Uncaught("submitReport")
                ELSE ApiResponseDoc("submitReport", 201, newReport)

\* the uploads and what follows them
SubmitUploads(userId, body, files) ==
    \E photoUpload \in UploadOutcomes :
      IF photoUpload = "null"
      THEN SubmitRejected(userId, body, files, {photoUpload}, 500)
      ELSE IF files.voiceRecording = "attached"
      THEN \E voiceUpload \in UploadOutcomes :
             IF voiceUpload = "null"
             THEN SubmitRejected(userId, body, files, {photoUpload, voiceUpload}, 500)
             ELSE SubmitCreated(userId, body, files, {photoUpload, voiceUpload}, "url")
      ELSE SubmitCreated(userId, body, files, {photoUpload}, "null")

submitReport ==
    /\ proc = "running"
    /\ \E userId \in UserIds, body \in SubmitBodies, files \in SubmitFiles :
         IF RequiredFieldsMissing(body)
         THEN SubmitRejected(userId, body, files, {}, 400)
         ELSE IF ~CategoryExists(body.categoryId)
         THEN SubmitRejected(userId, body, files, {}, 404)
         ELSE IF PhotoMissing(files)
         THEN SubmitRejected(userId, body, files, {}, 400)
         ELSE SubmitUploads(userId, body, files)
    /\ UNCHANGED <<proc, cronScheduled, users, categories, notifications>>

----------------------------------------------------------------------------
(* Queries shared by the handlers *)

RemoveAt(docs, i) ==
    [k \in 1..(Len(docs) - 1) |-> IF k < i THEN docs[k] ELSE docs[k + 1]]

\* variant: no sort, the documents stay in insertion order
SortOmitted(docs) == docs

\* .sort({ createdAt: -1 })
RECURSIVE SortNewestFirst(_)
SortNewestFirst(docs) ==
    IF docs = <<>>
    THEN <<>>
    ELSE LET i == CHOOSE i \in 1..Len(docs) :
                    \A j \in 1..Len(docs) : docs[j].createdAt <= docs[i].createdAt
         IN <<docs[i]>> \o SortNewestFirst(RemoveAt(docs, i))

\* a reference field a join leaves as the raw id
Raw(id) == [ref |-> id]

\* Category.find(...).select("name description categoryId")
CategoryDoc(categoryId) ==
    [categoryId |-> categoryId, name |-> "name", description |-> "description"]

\* User.find(...).select("username name userId")
UserDoc(userId) ==
    [userId |-> userId, username |-> "username", name |-> "name"]

\* categoryMap.get(report.categoryId) || report.categoryId
JoinCategory(categoryId) ==
    IF categoryId \in categories THEN CategoryDoc(categoryId) ELSE Raw(categoryId)

\* userMap.get(report.userId) || report.userId
JoinUser(userId) ==
    IF userId \in users THEN UserDoc(userId) ELSE Raw(userId)

\* Report.findOne({ reportId }): the position of the report, 0 when there is none
FindReport(reportId) ==
    IF \E i \in 1..Len(reports) : reports[i].reportId = reportId
    THEN CHOOSE i \in 1..Len(reports) : reports[i].reportId = reportId
    ELSE 0

----------------------------------------------------------------------------
(* report.controller.js: getMyReports, getAllReports, getReportById *)

getMyReportsResponse(userId) ==
    LET Mine(r) == r.userId = userId
        myReports == SortNewestFirst(SelectSeq(reports, Mine))
        Populate(r) == [r EXCEPT !.userId = [userId |-> userId],
                                 !.categoryId = JoinCategory(r.categoryId)]
    IN IF Len(myReports) = 0
       THEN ApiResponseList("getMyReports", 200, <<>>)
       ELSE ApiResponseList("getMyReports", 200, [k \in 1..Len(myReports) |-> Populate(myReports[k])])

getMyReports ==
    /\ proc = "running"
    /\ \E userId \in UserIds :
         /\ req' = [op |-> "getMyReports", userId |-> userId]
         /\ res' = getMyReportsResponse(userId)
    /\ UNCHANGED <<proc, cronScheduled, store>>

\* variant: the empty listing answers like getMyReports
getAllReportsResponse_EmptyOk ==
    LET Populate(r) == [r EXCEPT !.userId = JoinUser(r.userId),
                                 !.categoryId = JoinCategory(r.categoryId)]
        found == SortNewestFirst(reports)
    IN ApiResponseList("getAllReports", 200,
                       [k \in 1..Len(found) |-> Populate(found[k])])

getAllReportsResponse ==
    LET All(r) == TRUE
        found == SortNewestFirst(SelectSeq(reports, All))
        Populate(r) == [r EXCEPT !.userId = JoinUser(r.userId),
                                 !.categoryId = JoinCategory(r.categoryId)]
    IN IF Len(found) = 0
       THEN ApiError("getAllReports", 404)
       ELSE ApiResponseList("getAllReports", 200, [k \in 1..Len(found) |-> Populate(found[k])])

getAllReports ==
    /\ proc = "running"
    /\ req' = [op |-> "getAllReports"]
    /\ res' = getAllReportsResponse
    /\ UNCHANGED <<proc, cronScheduled, store>>

\* .populate('userId', ...).populate('categoryId', ...): null when the reference
\* does not resolve
getReportByIdResponse(reportId) ==
    LET i == FindReport(reportId) IN
    IF i = 0
    THEN ApiError("getReportById", 404)
    ELSE ApiResponseDoc("getReportById", 200,
           [reports[i] EXCEPT
              !.userId = IF @ \in users THEN UserDoc(@) ELSE Raw("null"),
              !.categoryId = IF @ \in categories THEN CategoryDoc(@) ELSE Raw("null")])

getReportById ==
    /\ proc = "running"
    /\ \E reportId \in 1..(MaxReports + 1) :
         /\ req' = [op |-> "getReportById", reportId |-> reportId]
         /\ res' = getReportByIdResponse(reportId)
    /\ UNCHANGED <<proc, cronScheduled, store>>

----------------------------------------------------------------------------
(* report.controller.js: updateReportStatus *)

\* variant: only the description is assigned
ApplyStatus_DescriptionOnly(report, status, description) ==
    [report EXCEPT !.description = IF Falsy(description) THEN @ ELSE description]

\* report.status = status; report.description = description || report.description
ApplyStatus(report, status, description) ==
    [report EXCEPT !.status = status,
                   !.description = IF Falsy(description) THEN @ ELSE description]

\* User.findOne({ userId: report.userId })
OwnerResolves(report) == report.userId \in users

\* Notification.create({...}): notificationId, status and createdAt come from the schema
StatusNotification(report, status) ==
    [notificationId |-> Len(notifications) + 1,
     userId |-> report.userId,
     message |-> [text |-> "Your report status changed", reportId |-> report.reportId,
                  status |-> status],
     type |-> "status_update",
     reportId |-> report.reportId,
     status |-> DefaultNotificationStatus,
     createdAt |-> Len(notifications) + 1]

\* generateAnalytics and the response that follows it
UpdateFinish(saved) ==
    \E analytics \in AwaitOutcomes :
      res' = IF analytics = "rejects"
             THEN Uncaught("updateReportStatus")
             ELSE ApiResponseDoc("updateReportStatus", 200, saved)

\* the handler from report.save() on
UpdateSaved(i, status, description) ==
    LET saved == ApplyStatus(reports[i], status, description) IN
    /\ reports' = [reports EXCEPT ![i] = saved]
    /\ IF OwnerResolves(saved)
       THEN /\ Len(notifications) < MaxNotifications
            /\ \E created \in AwaitOutcomes :
                 IF created = "rejects"
                 THEN /\ notifications' = notifications
                      /\ res' = Uncaught("updateReportStatus")
                 ELSE /\ notifications' =
                           Append(notifications, StatusNotification(saved, status))
                      /\ UpdateFinish(saved)
       ELSE /\ notifications' = notifications
            /\ UpdateFinish(saved)

updateReportStatus ==
    /\ proc = "running"
    /\ \E reportId \in 1..(MaxReports + 1), status \in RequestStatuses,
          description \in RequestRemarks :
         /\ req' = [op |-> "updateReportStatus", reportId |-> reportId,
                    status |-> status]
         /\ IF Falsy(status)
            THEN /\ res' = ApiError("updateReportStatus", 400)
                 /\ UNCHANGED <<reports, notifications>>
            ELSE IF FindReport(reportId) = 0
            THEN /\ res' = ApiError("updateReportStatus", 404)
                 /\ UNCHANGED <<reports, notifications>>
            ELSE UpdateSaved(FindReport(reportId), status, description)
    /\ UNCHANGED <<proc, cronScheduled, users, categories, history>>

----------------------------------------------------------------------------
(* notification.controller.js: getMyNotifications *)

\* Report.find({ reportId: { $in: reportUUIDs } }).select('reportId title status')
ReportProjection(report) ==
    [reportId |-> report.reportId, title |-> report.title, status |-> report.status]

\* [...new Set(notifications.map(n => n.reportId).filter(id => id))]
ReportUUIDs(found) ==
    {found[k].reportId : k \in 1..Len(found)} \ {0}

\* reportMap.get(notification.reportId) || notification.reportId
JoinReport(reportId, reportUUIDs) ==
    IF reportId \in reportUUIDs /\ FindReport(reportId) # 0
    THEN ReportProjection(reports[FindReport(reportId)])
    ELSE Raw(reportId)

getMyNotificationsResponse(userId) ==
    LET Mine(n) == n.userId = userId
        found == SortNewestFirst(SelectSeq(notifications, Mine))
        Populate(n) == [n EXCEPT !.reportId = JoinReport(n.reportId, ReportUUIDs(found))]
    IN IF Len(found) = 0
       THEN ApiResponseList("getMyNotifications", 200, <<>>)
       ELSE ApiResponseList("getMyNotifications", 200, [k \in 1..Len(found) |-> Populate(found[k])])

getMyNotifications ==
    /\ proc = "running"
    /\ \E userId \in UserIds :
         /\ req' = [op |-> "getMyNotifications", userId |-> userId]
         /\ res' = getMyNotificationsResponse(userId)
    /\ UNCHANGED <<proc, cronScheduled, store>>

----------------------------------------------------------------------------
(* notification.controller.js: markNotificationAsRead *)

\* variant: the filter names the notificationId alone
ReadFilter_IdOnly(n, notificationId, userId) ==
    n.notificationId = notificationId

\* the filter of findOneAndUpdate
ReadFilter(n, notificationId, userId) ==
    n.notificationId = notificationId /\ n.userId = userId

\* variant: the update also rewrites the message
MarkRead_Rewrite(n) == [n EXCEPT !.status = "read", !.message.text = "read"]

\* the update of findOneAndUpdate
MarkRead(n) == [n EXCEPT !.status = "read"]

\* Notification.findOneAndUpdate(filter, update): position of the match, 0 for none
FindNotification(notificationId, userId) ==
    IF \E i \in 1..Len(notifications) : ReadFilter(notifications[i], notificationId, userId)
    THEN CHOOSE i \in 1..Len(notifications) :
           ReadFilter(notifications[i], notificationId, userId)
    ELSE 0

markNotificationAsRead ==
    /\ proc = "running"
    /\ \E notificationId \in 1..(MaxNotifications + 1), userId \in UserIds :
         LET i == FindNotification(notificationId, userId) IN
         /\ req' = [op |-> "markNotificationAsRead",
                    notificationId |-> notificationId, userId |-> userId]
         /\ IF i = 0
            THEN /\ res' = ApiError("markNotificationAsRead", 404)
                 /\ notifications' = notifications
            ELSE /\ notifications' = [notifications EXCEPT ![i] = MarkRead(@)]
                 /\ res' = ApiResponseDoc("markNotificationAsRead", 200,
                                          MarkRead(notifications[i]))
    /\ UNCHANGED <<proc, cronScheduled, users, categories, reports, history>>

----------------------------------------------------------------------------
(* index.js: start-up and the scheduled dispatch job *)

\* connectDB().then(...): listen and register the timer; .catch: process.exit(1)
startServer ==
    /\ proc = "starting"
    /\ \E connected \in AwaitOutcomes :
         IF connected = "resolves"
         THEN proc' = "running" /\ cronScheduled' = TRUE
         ELSE proc' = "exited" /\ cronScheduled' = FALSE
    /\ UNCHANGED <<store, req, res>>

\* variant: the callback without its try/catch
cronCallback_NoCatch(sent) ==
    IF sent = "resolves"
    THEN [log |-> "Notification task completed successfully.", propagates |-> FALSE]
    ELSE [log |-> "Running pending report notification task...", propagates |-> TRUE]

\* the callback given to cron.schedule: what it logs last, and whether the error
\* of sendPendingReportNotifications leaves the callback
cronCallback(sent) ==
    IF sent = "resolves"
    THEN [log |-> "Notification task completed successfully.", propagates |-> FALSE]
    ELSE [log |-> "Error during notification task:", propagates |-> FALSE]

\* one tick of the timer
cronTick ==
    /\ proc = "running"
    /\ cronScheduled
    /\ \E sent \in AwaitOutcomes :
         LET run == cronCallback(sent) IN
         /\ req' = [op |-> "cronTick", sent |-> sent,
                    previous |-> IF req.op = "cronTick" THEN req.sent ELSE "none"]
         /\ res' = [op |-> "cronTick", status |-> 0, kind |-> "log", data |-> <<run.log>>]
         /\ IF run.propagates
            THEN proc' = "crashed" /\ cronScheduled' = FALSE
            ELSE UNCHANGED <<proc, cronScheduled>>
    /\ UNCHANGED store

----------------------------------------------------------------------------
(* The document store the process starts on *)

\* a notification left in the store whose report is no longer there
OrphanNotification ==
    [notificationId |-> 1,
     userId |-> "u1",
     message |-> [text |-> "Your report status changed", reportId |-> MaxReports + 1,
                  status |-> "resolved"],
     type |-> "status_update",
     reportId |-> MaxReports + 1,
     status |-> DefaultNotificationStatus,
     createdAt |-> 1]

\* The store outlives the process: it starts with the User document of u1 only
\* (u2 is an authenticated caller whose User document does not resolve), one
\* category, and one notification whose report is gone.
Init ==
    /\ proc = "starting"
    /\ cronScheduled = FALSE
    /\ users = {"u1"}
    /\ categories = StoredCategoryIds
    /\ reports = <<>>
    /\ history = <<>>
    /\ notifications = <<OrphanNotification>>
    /\ req = [op |-> "none"]
    /\ res = [op |-> "none", status |-> 0, kind |-> "none", data |-> <<>>]

Next ==
    \/ startServer
    \/ submitReport
    \/ getMyReports
    \/ getAllReports
    \/ getReportById
    \/ updateReportStatus
    \/ getMyNotifications
    \/ markNotificationAsRead
    \/ cronTick

Spec == Init /\ [][Next]_vars

----------------------------------------------------------------------------
(* Vocabulary of the properties *)

Last(docs) == docs[Len(docs)]

\* the stored report with this id exists
ReportStored(reportId) ==
    \E i \in 1..Len(reports) : reports[i].reportId = reportId

\* the step just taken handled a request of this operation
Handled(op) == req'.op = op

\* HTTP status the interface gives for each way a submission falls short
DefectStatus(d) ==
    CASE d = "field" -> 400
      [] d = "category" -> 404
      [] d = "photo" -> 400
      [] d = "upload" -> 500

----------------------------------------------------------------------------
(* C1 *)

\* C1: every submitReport request that passes validation (the five fields
\* present, the category resolves, a photo attached, the uploads succeed)
\* creates exactly one Report and exactly one ReportHistory record for it with
\* previousStatus null and newStatus "pending", and is answered 201 with the
\* created report.
C1_ValidSubmissionCreatesAndAnswers201 ==
    [][(Handled("submitReport") /\ req'.defects = {}) =>
         /\ Len(reports') = Len(reports) + 1
         /\ SubSeq(reports', 1, Len(reports)) = reports
         /\ Last(reports').userId = req'.userId
         /\ history' = Append(history,
                [reportId |-> Last(reports').reportId,
                 previousStatus |-> "null",
                 newStatus |-> "pending",
                 changedByUserId |-> req'.userId,
                 remarks |-> "Report submitted by user."])
         /\ res'.status = 201
         /\ res'.data = <<Last(reports')>>
      ]_vars

----------------------------------------------------------------------------
(* C2 *)

\* C2: every status change made by updateReportStatus appends exactly one
\* ReportHistory entry for that report, recording the previous and the new
\* status, so that a report's history holds one entry more than the status
\* updates applied to it.
C2_StatusChangeAppendsHistory ==
    [][(Handled("updateReportStatus") /\ res'.status = 200) =>
         /\ Len(history') = Len(history) + 1
         /\ SubSeq(history', 1, Len(history)) = history
         /\ Last(history').reportId = req'.reportId
         /\ Last(history').newStatus = req'.status
         /\ \E i \in 1..Len(reports) :
              /\ reports[i].reportId = req'.reportId
              /\ Last(history').previousStatus = reports[i].status
      ]_vars

----------------------------------------------------------------------------
(* C3 *)

\* C3: after an updateReportStatus request answered 200 the stored report's
\* status is the requested status, and the request has created exactly one
\* Notification (recipient the report's owner, reportId the report, type
\* status_update) when the owner resolves, and none when the owner does not.
C3_UpdateSetsStatusAndNotifiesOwner ==
    [][(Handled("updateReportStatus") /\ res'.status = 200) =>
         \E i \in 1..Len(reports') :
           /\ reports'[i].reportId = req'.reportId
           /\ reports'[i].status = req'.status
           /\ IF reports'[i].userId \in users
              THEN /\ Len(notifications') = Len(notifications) + 1
                   /\ SubSeq(notifications', 1, Len(notifications)) = notifications
                   /\ Last(notifications').userId = reports'[i].userId
                   /\ Last(notifications').reportId = req'.reportId
                   /\ Last(notifications').type = "status_update"
              ELSE notifications' = notifications
      ]_vars

\* an update answered 200 whose owner resolved: the notification is stored
C3_Witness ==
    /\ req.op = "updateReportStatus"
    /\ res.status = 200
    /\ req.status = "resolved"
    /\ Len(notifications) > 0
    /\ Last(notifications).reportId = req.reportId
    /\ Last(notifications).userId \in users

----------------------------------------------------------------------------
(* C4 *)

\* C4: markNotificationAsRead changes a notification only when both the
\* notificationId and the caller's userId match it: otherwise the answer is
\* 404 and the store is unchanged; for the owner the notification's status
\* becomes 'read' and the answer is 200 with the updated notification.
C4_MarkReadOnlyByOwner ==
    [][Handled("markNotificationAsRead") =>
         IF \E i \in 1..Len(notifications) :
              /\ notifications[i].notificationId = req'.notificationId
              /\ notifications[i].userId = req'.userId
         THEN \E i \in 1..Len(notifications) :
                /\ notifications[i].notificationId = req'.notificationId
                /\ notifications' =
                     [notifications EXCEPT ![i] = [@ EXCEPT !.status = "read"]]
                /\ res'.status = 200
                /\ res'.data = <<notifications'[i]>>
         ELSE /\ res'.status = 404
              /\ UNCHANGED store
      ]_vars

\* a caller was refused (404) for a notification that exists and belongs to
\* another user
C4_Witness ==
    /\ req.op = "markNotificationAsRead"
    /\ res.status = 404
    /\ \E i \in 1..Len(notifications) :
         /\ notifications[i].notificationId = req.notificationId
         /\ notifications[i].userId # req.userId

----------------------------------------------------------------------------
(* C5 *)

\* C5: once updateReportStatus has persisted the report's new status, the
\* answer is 200 with the updated report, whether or not the creation of the
\* notification or the analytics recomputation succeeded.
C5_UpdateAnswers200OncePersisted ==
    [][(Handled("updateReportStatus") /\ req'.status # "" /\ ReportStored(req'.reportId)) =>
         /\ res'.status = 200
         /\ \E i \in 1..Len(reports') :
              /\ reports'[i].reportId = req'.reportId
              /\ res'.data = <<reports'[i]>>
      ]_vars

----------------------------------------------------------------------------
(* C6 *)

\* C6: a rejected request leaves the store unchanged: a submitReport that lacks
\* a field (400), names an unresolved category (404), has no photo (400) or
\* whose upload fails (500) creates no Report and no ReportHistory; an
\* updateReportStatus without a status (400) or for an unknown reportId (404)
\* changes no Report and creates no Notification.
C6_RejectedRequestLeavesStore ==
    [][/\ (Handled("submitReport") /\ req'.defects # {}) =>
            /\ res'.kind = "error"
            /\ res'.status \in {DefectStatus(d) : d \in req'.defects}
            /\ UNCHANGED store
       /\ (Handled("updateReportStatus") /\ req'.status = "") =>
            /\ res'.kind = "error"
            /\ res'.status = 400
            /\ UNCHANGED store
       /\ (Handled("updateReportStatus") /\ req'.status # ""
             /\ ~ReportStored(req'.reportId)) =>
            /\ res'.kind = "error"
            /\ res'.status = 404
            /\ UNCHANGED store
      ]_vars

\* a submission with every field, a known category and a photo, refused
\* because an upload failed
C6_Witness ==
    /\ req.op = "submitReport"
    /\ req.defects = {"upload"}
    /\ res.status = 500
    /\ reports = <<>>

----------------------------------------------------------------------------
(* C7 *)

\* C7: getMyReports and getMyNotifications for a caller with no matching
\* record answer 200 with an empty list, never an error; getAllReports answers
\* 404 when the store holds no report and 200 with a non-empty list otherwise.
C7_EmptyResultAsymmetry ==
    /\ (req.op = "getMyReports"
          /\ ~\E i \in 1..Len(reports) : reports[i].userId = req.userId) =>
         (res.status = 200 /\ res.kind = "list" /\ res.data = <<>>)
    /\ (req.op = "getMyNotifications"
          /\ ~\E i \in 1..Len(notifications) : notifications[i].userId = req.userId) =>
         (res.status = 200 /\ res.kind = "list" /\ res.data = <<>>)
    /\ req.op = "getAllReports" =>
         IF Len(reports) = 0
         THEN res.status = 404 /\ res.kind = "error"
         ELSE res.status = 200 /\ res.kind = "list" /\ Len(res.data) = Len(reports)

\* the admin listing refused on a store where a caller's own listing is empty
C7_Witness ==
    /\ req.op = "getAllReports"
    /\ res.status = 404
    /\ reports = <<>>

----------------------------------------------------------------------------
(* C8 *)

\* C8: an error raised by sendPendingReportNotifications during a timer run is
\* caught and logged inside that run: the process keeps running, the timer
\* stays registered, and the next tick can invoke the job again.
C8_FailedRunKeepsTimer ==
    /\ proc \notin {"starting", "exited"} =>
         (proc = "running" /\ cronScheduled /\ ENABLED cronTick)
    /\ (req.op = "cronTick" /\ req.sent = "rejects") =>
         (proc = "running" /\ res.data = <<"Error during notification task:">>)

\* a tick that invoked the job right after a run that failed
C8_Witness ==
    /\ req.op = "cronTick"
    /\ req.previous = "rejects"
    /\ req.sent = "resolves"
    /\ res.data = <<"Notification task completed successfully.">>

----------------------------------------------------------------------------
(* C9 *)

\* the caller's stored notification with this id
StoredNotification(notificationId) ==
    notifications[CHOOSE i \in 1..Len(notifications) :
                    notifications[i].notificationId = notificationId]

\* the entry the listing is to give for a stored notification
ExpectedEntry(n) ==
    IF \E i \in 1..Len(reports) : reports[i].reportId = n.reportId
    THEN LET r == reports[CHOOSE i \in 1..Len(reports) : reports[i].reportId = n.reportId]
         IN [n EXCEPT !.reportId =
                       [reportId |-> r.reportId, title |-> r.title, status |-> r.status]]
    ELSE [n EXCEPT !.reportId = [ref |-> n.reportId]]

\* C9: getMyNotifications answers with exactly the caller's notifications, one
\* entry each, newest first; an entry's reportId is the {reportId, title,
\* status} projection of the referenced report when that report exists and the
\* raw report id when it does not; the other fields are as stored.
C9_ListingJoinsReports ==
    req.op = "getMyNotifications" =>
      /\ res.status = 200
      /\ res.kind = "list"
      /\ {res.data[k].notificationId : k \in 1..Len(res.data)} =
           {notifications[i].notificationId :
              i \in {j \in 1..Len(notifications) : notifications[j].userId = req.userId}}
      /\ Len(res.data) =
           Cardinality({j \in 1..Len(notifications) : notifications[j].userId = req.userId})
      /\ \A k \in 1..(Len(res.data) - 1) :
           res.data[k].createdAt > res.data[k + 1].createdAt
      /\ \A k \in 1..Len(res.data) :
           res.data[k] = ExpectedEntry(StoredNotification(res.data[k].notificationId))

\* a listing of two notifications, one with its report resolved and one whose
\* report is missing
C9_Witness ==
    /\ req.op = "getMyNotifications"
    /\ Len(res.data) >= 2
    /\ \E k \in 1..Len(res.data) : "title" \in DOMAIN res.data[k].reportId
    /\ \E k \in 1..Len(res.data) : "ref" \in DOMAIN res.data[k].reportId

----------------------------------------------------------------------------
(* C10 *)

\* C10: across the handlers a stored Notification changes in no field other
\* than its read status, and no Report, ReportHistory, Notification, Category
\* or User is removed from the store.
C10_NotificationsFixedNothingRemoved ==
    [][/\ Len(notifications') >= Len(notifications)
       /\ \A i \in 1..Len(notifications) :
            [notifications'[i] EXCEPT !.status = notifications[i].status] = notifications[i]
       /\ Len(reports') >= Len(reports)
       /\ \A i \in 1..Len(reports) : reports'[i].reportId = reports[i].reportId
       /\ Len(history') >= Len(history)
       /\ \A i \in 1..Len(history) : history'[i] = history[i]
       /\ categories \subseteq categories'
       /\ users \subseteq users'
      ]_vars

\* a notification created by a status update has been marked read by its owner
C10_Witness ==
    /\ req.op = "markNotificationAsRead"
    /\ res.status = 200
    /\ \E i \in 1..Len(notifications) :
         /\ notifications[i].status = "read"
         /\ \E j \in 1..Len(reports) : reports[j].reportId = notifications[i].reportId

====
